---- MODULE Spec2Model ----
(***************************************************************************)
(* A model of the admin panel's Reports component                          *)
(* (src/admin-panel/components/Reports.tsx): its filter state, the order   *)
(* fetcher run by the filter effect, the four aggregation reducers, the    *)
(* quick-range presets and the CSV export; and of the k6 load-test script  *)
(* (src/unnamed/part_000): one virtual user running its iterations.        *)
(*                                                                         *)
(* Text is a sequence of character codes, a Date is a number of minutes    *)
(* since the epoch, and a JavaScript number is an IEEE-754 double with a   *)
(* 53-bit significand kept in 15-bit limbs.                                *)
(***************************************************************************)
EXTENDS Integers, Sequences, FiniteSets, TLC

VARIABLES
    channel,      \* useState<Channel | 'all'>
    status,       \* useState<Status | 'all'>
    quickRange,   \* useState<string>: the highlighted preset id
    startDate,    \* useState: 'YYYY-MM-DD' text, or empty
    endDate,      \* useState: 'YYYY-MM-DD' text, or empty
    viewMode,     \* useState<ViewMode>
    orders,       \* useState<OrderRow[]>: the held order list
    loading,      \* useState(false)
    error,        \* useState<string | null>
    inflight,     \* the fetchOrders calls that have not completed, oldest first
    ordersFor,    \* history: the request parameters the held list answers
    issued,       \* history: the number of requests sent so far
    lastResponse, \* history: how the request that completed last was answered
    download,     \* the text of the last CSV handed to the browser
    now,          \* the clock: minutes since 1970-01-01T00:00Z
    tz,           \* the browser's offset from UTC in minutes, east positive
    pc,           \* the step of the load-test iteration the virtual user is at
    token,        \* const token of the running iteration
    productId,    \* const productId of the running iteration
    sent,         \* the requests the running iteration has sent, in order
    checks,       \* the checks the running iteration has recorded, in order
    iteration,    \* the number of iterations the virtual user has ended
    finished      \* history: what the iteration that ended last did

vars == <<channel, status, quickRange, startDate, endDate, viewMode, orders,
          loading, error, inflight, ordersFor, issued, lastResponse, download,
          now, tz, pc, token, productId, sent, checks, iteration, finished>>

\* The state of the load-test script's virtual user.
script == <<pc, token, productId, sent, checks, iteration, finished>>

----------------------------------------------------------------------------
(* Text: sequences of character codes.                                     *)

LF == 10
Hyphen == 45
Dot == 46
Zero == 48
Semicolon == 59

Digit(n) == Zero + n

Pad2(n) == <<Digit(n \div 10), Digit(n % 10)>>

Pad4(n) ==
    <<Digit(n \div 1000), Digit((n \div 100) % 10), Digit((n \div 10) % 10), Digit(n % 10)>>

RECURSIVE DecimalDigits(_)
DecimalDigits(n) ==
    IF n < 10 THEN <<Digit(n)>> ELSE DecimalDigits(n \div 10) \o <<Digit(n % 10)>>

\* String.prototype.localeCompare on texts of digits and hyphens: the sign of
\* the first differing character, a proper prefix sorting first.
RECURSIVE localeCompare(_, _)
localeCompare(a, b) ==
    IF a = <<>> /\ b = <<>> THEN 0
    ELSE IF a = <<>> THEN -1
    ELSE IF b = <<>> THEN 1
    ELSE IF Head(a) < Head(b) THEN -1
    ELSE IF Head(a) > Head(b) THEN 1
    ELSE localeCompare(Tail(a), Tail(b))

\* Array.prototype.join: the cells with sep between neighbours.
RECURSIVE Join(_, _)
Join(cells, sep) ==
    IF cells = <<>> THEN <<>>
    ELSE IF Len(cells) = 1 THEN cells[1]
    ELSE cells[1] \o <<sep>> \o Join(Tail(cells), sep)

\* The pieces of text between occurrences of sep, as a reader of the file
\* separates them.
RECURSIVE Split(_, _)
Split(text, sep) ==
    IF \A i \in 1..Len(text) : text[i] # sep THEN <<text>>
    ELSE LET k == CHOOSE i \in 1..Len(text) :
                      text[i] = sep /\ \A j \in 1..(i - 1) : text[j] # sep
         IN <<SubSeq(text, 1, k - 1)>> \o Split(SubSeq(text, k + 1, Len(text)), sep)

----------------------------------------------------------------------------
(* Dates: the calendar arithmetic behind Date's local and UTC fields.      *)

MinutesPerDay == 1440

\* Day number (days since 1970-01-01) of a proleptic Gregorian date; m may
\* be any month 1..12 and d any integer, as in Date's MakeDay.
DaysFromCivil(y, m, d) ==
    LET yy == IF m <= 2 THEN y - 1 ELSE y
        era == yy \div 400
        yoe == yy - era * 400
        mp == IF m > 2 THEN m - 3 ELSE m + 9
        doy == (153 * mp + 2) \div 5 + d - 1
        doe == yoe * 365 + yoe \div 4 - yoe \div 100 + doy
    IN era * 146097 + doe - 719468

CivilFromDays(z) ==
    LET zz == z + 719468
        era == zz \div 146097
        doe == zz - era * 146097
        yoe == (doe - doe \div 1460 + doe \div 36524 - doe \div 146096) \div 365
        doy == doe - (365 * yoe + yoe \div 4 - yoe \div 100)
        mp == (5 * doy + 2) \div 153
        d == doy - (153 * mp + 2) \div 5 + 1
        m == IF mp < 10 THEN mp + 3 ELSE mp - 9
    IN [year |-> IF m <= 2 THEN yoe + era * 400 + 1 ELSE yoe + era * 400,
        month |-> m, day |-> d]

\* The local calendar day and time of day of instant t at offset off.
LocalDay(t, off) == (t + off) \div MinutesPerDay
LocalTimeOfDay(t, off) == (t + off) % MinutesPerDay

\* Date.prototype.getDate / getMonth / getFullYear: local fields.
getDate(t, off) == CivilFromDays(LocalDay(t, off)).day
getMonth(t, off) == CivilFromDays(LocalDay(t, off)).month - 1
getFullYear(t, off) == CivilFromDays(LocalDay(t, off)).year

\* Date.prototype.setDate(n): day n of the local month, n of any sign, at
\* the same local time of day.
setDate(t, off, n) ==
    LET c == CivilFromDays(LocalDay(t, off))
    IN DaysFromCivil(c.year, c.month, n) * MinutesPerDay + LocalTimeOfDay(t, off) - off

\* new Date(year, monthIndex, 1): local midnight.
NewLocalDate(y, monthIndex, d, off) ==
    DaysFromCivil(y, monthIndex + 1, d) * MinutesPerDay - off

\* toISOString().slice(0, 10): the UTC calendar date as YYYY-MM-DD.
toISODate(t) ==
    LET c == CivilFromDays(t \div MinutesPerDay)
    IN Pad4(c.year) \o <<Hyphen>> \o Pad2(c.month) \o <<Hyphen>> \o Pad2(c.day)

----------------------------------------------------------------------------
(* Numbers: the non-negative finite IEEE-754 doubles.  A natural number is *)
(* a sequence of limbs of LimbBits bits, least significant first, with no  *)
(* leading zero limb; a double is sig * 2^exp with sig of exactly          *)
(* Precision bits, or PlusZero.                                            *)

Precision == 53
LimbBits == 15

RECURSIVE Pow2(_)
Pow2(n) == IF n = 0 THEN 1 ELSE 2 * Pow2(n - 1)

Base == Pow2(LimbBits)

RECURSIVE BitLength(_)
BitLength(n) == IF n = 0 THEN 0 ELSE 1 + BitLength(n \div 2)

RECURSIVE NatOf(_)
NatOf(n) == IF n = 0 THEN <<>> ELSE <<n % Base>> \o NatOf(n \div Base)

RECURSIVE NatValue(_)
NatValue(a) == IF a = <<>> THEN 0 ELSE Head(a) + Base * NatValue(Tail(a))

RECURSIVE NatTrim(_)
NatTrim(a) ==
    IF a # <<>> /\ a[Len(a)] = 0 THEN NatTrim(SubSeq(a, 1, Len(a) - 1)) ELSE a

RECURSIVE NatAddCarry(_, _, _)
NatAddCarry(a, b, c) ==
    IF a = <<>> /\ b = <<>> THEN (IF c = 0 THEN <<>> ELSE <<c>>)
    ELSE LET x == IF a = <<>> THEN 0 ELSE Head(a)
             y == IF b = <<>> THEN 0 ELSE Head(b)
             s == x + y + c
         IN <<s % Base>> \o NatAddCarry(IF a = <<>> THEN <<>> ELSE Tail(a),
                                         IF b = <<>> THEN <<>> ELSE Tail(b),
                                         s \div Base)

NatAdd(a, b) == NatAddCarry(a, b, 0)

\* a * m + c for a multiplier and carry below Base.
RECURSIVE NatMulSmall(_, _, _)
NatMulSmall(a, m, c) ==
    IF a = <<>> THEN (IF c = 0 THEN <<>> ELSE <<c>>)
    ELSE LET p == Head(a) * m + c
         IN <<p % Base>> \o NatMulSmall(Tail(a), m, p \div Base)

\* <<quotient, remainder>> of a by a divisor below Base.
RECURSIVE NatDivSmall(_, _)
NatDivSmall(a, d) ==
    IF a = <<>> THEN <<<<>>, 0>>
    ELSE LET high == NatDivSmall(Tail(a), d)
             cur == high[2] * Base + Head(a)
         IN <<NatTrim(<<cur \div d>> \o high[1]), cur % d>>

NatShiftLeft(a, n) ==
    IF a = <<>> THEN <<>>
    ELSE [i \in 1..(n \div LimbBits) |-> 0] \o NatMulSmall(a, Pow2(n % LimbBits), 0)

NatShiftRight(a, n) ==
    IF n \div LimbBits >= Len(a) THEN <<>>
    ELSE NatDivSmall(SubSeq(a, n \div LimbBits + 1, Len(a)), Pow2(n % LimbBits))[1]

NatBitLength(a) ==
    IF a = <<>> THEN 0 ELSE LimbBits * (Len(a) - 1) + BitLength(a[Len(a)])

\* Bit i of a, bit 0 the least significant.
NatBit(a, i) ==
    IF i \div LimbBits >= Len(a) THEN 0
    ELSE (a[i \div LimbBits + 1] \div Pow2(i % LimbBits)) % 2

\* Whether a has a 1 among its bits 0 .. i-1.
NatLowBitsSet(a, i) ==
    \/ \E j \in 1..(i \div LimbBits) : j <= Len(a) /\ a[j] # 0
    \/ /\ i \div LimbBits < Len(a)
       /\ a[i \div LimbBits + 1] % Pow2(i % LimbBits) # 0

RECURSIVE TrailingZeros(_)
TrailingZeros(n) == IF n % 2 = 1 THEN 0 ELSE 1 + TrailingZeros(n \div 2)

PlusZero == [sig |-> <<>>, exp |-> 0]

\* The double nearest to n * 2^e, ties to the even significand.
RoundToDouble(n, e) ==
    IF n = <<>> THEN PlusZero
    ELSE IF NatBitLength(n) <= Precision
    THEN [sig |-> NatShiftLeft(n, Precision - NatBitLength(n)),
          exp |-> e - (Precision - NatBitLength(n))]
    ELSE LET k == NatBitLength(n) - Precision
             kept == NatShiftRight(n, k)
             up == /\ NatBit(n, k - 1) = 1
                   /\ (NatLowBitsSet(n, k - 1) \/ NatBit(n, k) = 1)
             r == IF up THEN NatAdd(kept, <<1>>) ELSE kept
         IN IF NatBitLength(r) > Precision
            THEN [sig |-> NatShiftRight(r, 1), exp |-> e + k + 1]
            ELSE [sig |-> r, exp |-> e + k]

\* The Number value of a small non-negative integer.
NumberOf(n) == RoundToDouble(NatOf(n), 0)

\* x + y on Numbers.
NumAdd(x, y) ==
    IF x = PlusZero THEN y
    ELSE IF y = PlusZero THEN x
    ELSE LET e == IF x.exp < y.exp THEN x.exp ELSE y.exp
         IN RoundToDouble(NatAdd(NatShiftLeft(x.sig, x.exp - e),
                                 NatShiftLeft(y.sig, y.exp - e)), e)

\* x / y on Numbers, for y a positive integer below Base times a power of
\* two: the quotient to more than Precision + 2 bits, with a sticky bit for
\* a non-zero remainder below them.
NumDiv(x, y) ==
    IF x = PlusZero THEN PlusZero
    ELSE LET low == LimbBits * (Len(y.sig) - 1)
             top == y.sig[Len(y.sig)]
             z == TrailingZeros(top)
             odd == top \div Pow2(z)
             extra == Precision + 2 + LimbBits
             d == NatDivSmall(NatShiftLeft(x.sig, extra), odd)
             s == IF d[2] = 0 THEN 0 ELSE 1
         IN RoundToDouble(NatAdd(NatShiftLeft(d[1], 1), NatOf(s)),
                          x.exp - (y.exp + low + z) - extra - 1)

\* x * y on Numbers, for y as in NumDiv.
NumMul(x, y) ==
    IF x = PlusZero \/ y = PlusZero THEN PlusZero
    ELSE LET low == LimbBits * (Len(y.sig) - 1)
             top == y.sig[Len(y.sig)]
             z == TrailingZeros(top)
             odd == top \div Pow2(z)
         IN RoundToDouble(NatMulSmall(x.sig, odd, 0), x.exp + y.exp + low + z)

\* The Number a decimal literal with two fraction digits denotes: c / 100.
Decimal(cents) == NumDiv(NumberOf(cents), NumberOf(100))

\* Number.prototype.toFixed(2), for x below 2^21: the integer n nearest to
\* x * 100, the larger one on a tie, printed with two fraction digits.
toFixed2(x) ==
    LET p == NatMulSmall(x.sig, 100, 0)
        n == IF x = PlusZero THEN 0
             ELSE IF x.exp >= 0 THEN NatValue(NatShiftLeft(p, x.exp))
             ELSE NatValue(NatShiftRight(p, -x.exp)) + NatBit(p, -x.exp - 1)
    IN DecimalDigits(n \div 100) \o <<Dot>> \o Pad2(n % 100)

----------------------------------------------------------------------------
(* The order rows and the fixed tables of the component.                   *)

channelOrder == <<"hepsiburada", "trendyol", "ticimax", "site", "other">>

\* The statuses in the key order of the byStatus map literal.
statusOrder == <<"pending", "processing", "shipped", "delivered", "cancelled", "returned">>

Channels == {channelOrder[i] : i \in 1..Len(channelOrder)}
Statuses == {statusOrder[i] : i \in 1..Len(statusOrder)}

\* 'Hepsiburada', 'Trendyol', 'Ticimax', 'Site', 'Diğer'
CHANNEL_LABELS ==
    [hepsiburada |-> <<72, 101, 112, 115, 105, 98, 117, 114, 97, 100, 97>>,
     trendyol |-> <<84, 114, 101, 110, 100, 121, 111, 108>>,
     ticimax |-> <<84, 105, 99, 105, 109, 97, 120>>,
     site |-> <<83, 105, 116, 101>>,
     other |-> <<68, 105, 287, 101, 114>>]

\* 'Beklemede', 'İşleniyor', 'Kargoda', 'Teslim Edildi', 'İptal', 'İade'
STATUS_LABELS ==
    [pending |-> <<66, 101, 107, 108, 101, 109, 101, 100, 101>>,
     processing |-> <<304, 351, 108, 101, 110, 105, 121, 111, 114>>,
     shipped |-> <<75, 97, 114, 103, 111, 100, 97>>,
     delivered |-> <<84, 101, 115, 108, 105, 109, 32, 69, 100, 105, 108, 100, 105>>,
     cancelled |-> <<304, 112, 116, 97, 108>>,
     returned |-> <<304, 97, 100, 101>>]

\* 'Tarih', 'Kanal', 'Durum', 'Tutar', 'Müşteri', 'Kargo Fişi'
CsvHeaders ==
    <<<<84, 97, 114, 105, 104>>,
      <<75, 97, 110, 97, 108>>,
      <<68, 117, 114, 117, 109>>,
      <<84, 117, 116, 97, 114>>,
      <<77, 252, 351, 116, 101, 114, 105>>,
      <<75, 97, 114, 103, 111, 32, 70, 105, 351, 105>>>>

\* 'Evet', 'Hayır'
Evet == <<69, 118, 101, 116>>
Hayir == <<72, 97, 121, 305, 114>>

\* cargoSlipPrintedAt?: string | null
SlipAbsent == [kind |-> "undefined", text |-> <<>>]
SlipNull == [kind |-> "null", text |-> <<>>]
SlipText(t) == [kind |-> "string", text |-> t]

\* JavaScript truthiness of a cargoSlipPrintedAt value.
Truthy(slip) == slip.kind = "string" /\ slip.text # <<>>

DateText(y, m, d) == Pad4(y) \o <<Hyphen>> \o Pad2(m) \o <<Hyphen>> \o Pad2(d)

\* interface OrderRow, without the fields the component never reads.
Row(date, ch, st, cents, customer, slip) ==
    [date |-> date, channel |-> ch, status |-> st, amount |-> Decimal(cents),
     customer |-> customer, cargoSlipPrintedAt |-> slip]

\* 'Ali', 'Ece', 'Can; Ltd', and a name entered on two lines: 'Ali' LF 'Ece'
NameAli == <<65, 108, 105>>
NameEce == <<69, 99, 101>>
NameCanLtd == <<67, 97, 110, Semicolon, 32, 76, 116, 100>>
NameTwoLines == <<65, 108, 105, LF, 69, 99, 101>>

\* The rows the backend answers with: every channel and status, amounts with
\* and without an exact binary value, days on both sides of a month's end.
SampleRows ==
    {Row(DateText(2024, 1, 10), "hepsiburada", "pending", 10, NameAli, SlipNull),
     Row(DateText(2024, 1, 9), "trendyol", "returned", 10, NameEce,
         SlipText(DateText(2024, 1, 9))),
     Row(DateText(2024, 1, 10), "hepsiburada", "delivered", 110, NameCanLtd, SlipText(<<>>)),
     Row(DateText(2023, 12, 31), "ticimax", "cancelled", 2000, NameTwoLines, SlipAbsent),
     Row(DateText(2024, 1, 9), "site", "shipped", 0, NameAli,
         SlipText(DateText(2024, 1, 10))),
     Row(DateText(2024, 2, 1), "other", "processing", 1999, NameEce, SlipNull)}

MaxRows == 3

RECURSIVE ListsUpTo(_, _)
ListsUpTo(S, n) ==
    IF n = 0 THEN {<<>>}
    ELSE LET shorter == ListsUpTo(S, n - 1)
         IN shorter \cup {Append(l, r) : l \in {x \in shorter : Len(x) = n - 1}, r \in S}

OrderLists == ListsUpTo(SampleRows, MaxRows)

----------------------------------------------------------------------------
(* The aggregation reducers (useMemo over the held list).                  *)

\* const filtered = useMemo(() => orders, [orders])
filtered == orders

RECURSIVE SumAmounts(_, _)
\* list.reduce((s, o) => s + o.amount, acc)
SumAmounts(list, acc) ==
    IF list = <<>> THEN acc ELSE SumAmounts(Tail(list), NumAdd(acc, Head(list).amount))

Hundred == NumberOf(100)

\* totals with the average taken over one order too many.
totalsAverageOffByOne(list) ==
    LET totalAmount == SumAmounts(list, PlusZero)
        orderCount == Len(list)
        IsReturned(o) == o.status = "returned"
        HasSlip(o) == Truthy(o.cargoSlipPrintedAt)
        returns == Len(SelectSeq(list, IsReturned))
        onTimeCargo == Len(SelectSeq(list, HasSlip))
    IN [totalAmount |-> totalAmount,
        orderCount |-> orderCount,
        avgBasket |-> IF orderCount # 0
                      THEN NumDiv(totalAmount, NumberOf(orderCount + 1)) ELSE PlusZero,
        returnedRate |-> IF orderCount # 0
                         THEN NumMul(NumDiv(NumberOf(returns), NumberOf(orderCount)), Hundred)
                         ELSE PlusZero,
        onTimeRate |-> IF orderCount # 0
                       THEN NumMul(NumDiv(NumberOf(onTimeCargo), NumberOf(orderCount)), Hundred)
                       ELSE PlusZero]

\* totals with the slip test o.cargoSlipPrintedAt !== null.
totalsSlipNonNull(list) ==
    LET totalAmount == SumAmounts(list, PlusZero)
        orderCount == Len(list)
        IsReturned(o) == o.status = "returned"
        HasSlip(o) == o.cargoSlipPrintedAt.kind # "null"
        returns == Len(SelectSeq(list, IsReturned))
        onTimeCargo == Len(SelectSeq(list, HasSlip))
    IN [totalAmount |-> totalAmount,
        orderCount |-> orderCount,
        avgBasket |-> IF orderCount # 0
                      THEN NumDiv(totalAmount, NumberOf(orderCount)) ELSE PlusZero,
        returnedRate |-> IF orderCount # 0
                         THEN NumMul(NumDiv(NumberOf(returns), NumberOf(orderCount)), Hundred)
                         ELSE PlusZero,
        onTimeRate |-> IF orderCount # 0
                       THEN NumMul(NumDiv(NumberOf(onTimeCargo), NumberOf(orderCount)), Hundred)
                       ELSE PlusZero]

\* totals with the cancelled orders counted among the returns.
totalsCountsCancelled(list) ==
    LET totalAmount == SumAmounts(list, PlusZero)
        orderCount == Len(list)
        IsReturned(o) == o.status \in {"returned", "cancelled"}
        HasSlip(o) == Truthy(o.cargoSlipPrintedAt)
        returns == Len(SelectSeq(list, IsReturned))
        onTimeCargo == Len(SelectSeq(list, HasSlip))
    IN [totalAmount |-> totalAmount,
        orderCount |-> orderCount,
        avgBasket |-> IF orderCount # 0
                      THEN NumDiv(totalAmount, NumberOf(orderCount)) ELSE PlusZero,
        returnedRate |-> IF orderCount # 0
                         THEN NumMul(NumDiv(NumberOf(returns), NumberOf(orderCount)), Hundred)
                         ELSE PlusZero,
        onTimeRate |-> IF orderCount # 0
                       THEN NumMul(NumDiv(NumberOf(onTimeCargo), NumberOf(orderCount)), Hundred)
                       ELSE PlusZero]

totals(list) ==
    LET totalAmount == SumAmounts(list, PlusZero)
        orderCount == Len(list)
        IsReturned(o) == o.status = "returned"
        HasSlip(o) == Truthy(o.cargoSlipPrintedAt)
        returns == Len(SelectSeq(list, IsReturned))
        onTimeCargo == Len(SelectSeq(list, HasSlip))
    IN [totalAmount |-> totalAmount,
        orderCount |-> orderCount,
        avgBasket |-> IF orderCount # 0
                      THEN NumDiv(totalAmount, NumberOf(orderCount)) ELSE PlusZero,
        returnedRate |-> IF orderCount # 0
                         THEN NumMul(NumDiv(NumberOf(returns), NumberOf(orderCount)), Hundred)
                         ELSE PlusZero,
        onTimeRate |-> IF orderCount # 0
                       THEN NumMul(NumDiv(NumberOf(onTimeCargo), NumberOf(orderCount)), Hundred)
                       ELSE PlusZero]

\* byChannel built from the channels that have orders only.
byChannelOnlyPresent(list) ==
    LET HasOrders(c) == \E k \in 1..Len(list) : list[k].channel = c
        present == SelectSeq(channelOrder, HasOrders)
    IN [i \in 1..Len(present) |->
           LET c == present[i]
               OfChannel(o) == o.channel = c
               mine == SelectSeq(list, OfChannel)
           IN [channel |-> c, amount |-> SumAmounts(mine, PlusZero), count |-> Len(mine)]]

byChannel(list) ==
    [i \in 1..Len(channelOrder) |->
        LET c == channelOrder[i]
            OfChannel(o) == o.channel = c
            mine == SelectSeq(list, OfChannel)
        IN [channel |-> c, amount |-> SumAmounts(mine, PlusZero), count |-> Len(mine)]]

\* byStatus without the substitution for an empty chart.
byStatusNoPlaceholder(list) ==
    [i \in 1..Len(statusOrder) |->
        LET st == statusOrder[i]
            OfStatus(o) == o.status = st
        IN [status |-> st, value |-> Len(SelectSeq(list, OfStatus))]]

byStatus(list) ==
    LET data == [i \in 1..Len(statusOrder) |->
                    LET st == statusOrder[i]
                        OfStatus(o) == o.status = st
                    IN [status |-> st, value |-> Len(SelectSeq(list, OfStatus))]]
        Sum[k \in 0..Len(data)] == IF k = 0 THEN 0 ELSE Sum[k - 1] + data[k].value
        total == Sum[Len(data)]
    IN IF total = 0 THEN <<[status |-> "pending", value |-> 1]>> ELSE data

\* The bucket keys in insertion order: each date at its first occurrence.
RECURSIVE BucketKeys(_, _)
BucketKeys(list, seen) ==
    IF list = <<>> THEN seen
    ELSE IF \E i \in 1..Len(seen) : seen[i] = Head(list).date
    THEN BucketKeys(Tail(list), seen)
    ELSE BucketKeys(Tail(list), Append(seen, Head(list).date))

\* Array.prototype.sort with (a, b) => a.date.localeCompare(b.date): a
\* stable insertion of each bucket after those that do not compare greater.
RECURSIVE SortBuckets(_)
SortBuckets(buckets) ==
    IF buckets = <<>> THEN <<>>
    ELSE LET sorted == SortBuckets(SubSeq(buckets, 1, Len(buckets) - 1))
             b == buckets[Len(buckets)]
             k == Cardinality({i \in 1..Len(sorted) :
                                  localeCompare(sorted[i].date, b.date) <= 0})
         IN SubSeq(sorted, 1, k) \o <<b>> \o SubSeq(sorted, k + 1, Len(sorted))

\* timeSeries without the sort: the buckets in insertion order.
timeSeriesUnsorted(list) ==
    LET keys == BucketKeys(list, <<>>)
    IN [i \in 1..Len(keys) |->
           LET OnDay(o) == o.date = keys[i]
               mine == SelectSeq(list, OnDay)
           IN [date |-> keys[i], amount |-> SumAmounts(mine, PlusZero), count |-> Len(mine)]]

\* timeSeries with a bucket for each order instead of each date.
timeSeriesPerOrder(list) ==
    SortBuckets([i \in 1..Len(list) |->
                    [date |-> list[i].date, amount |-> NumAdd(PlusZero, list[i].amount),
                     count |-> 1]])

timeSeries(list) ==
    LET keys == BucketKeys(list, <<>>)
        bucket == [i \in 1..Len(keys) |->
                      LET OnDay(o) == o.date = keys[i]
                          mine == SelectSeq(list, OnDay)
                      IN [date |-> keys[i], amount |-> SumAmounts(mine, PlusZero),
                          count |-> Len(mine)]]
    IN SortBuckets(bucket)

\* exportCSV's text: the header and one line of six cells for each row.
CsvRow(o) ==
    <<o.date, CHANNEL_LABELS[o.channel], STATUS_LABELS[o.status], toFixed2(o.amount),
      o.customer, IF Truthy(o.cargoSlipPrintedAt) THEN Evet ELSE Hayir>>

CsvText(list) ==
    LET rows == [i \in 1..Len(list) |-> CsvRow(list[i])]
        lines == [i \in 1..(Len(list) + 1) |->
                     Join(IF i = 1 THEN CsvHeaders ELSE rows[i - 1], Semicolon)]
    IN Join(lines, LF)

----------------------------------------------------------------------------
(* The filter state, the quick ranges and the fetch effect.                *)

NULL == "NULL"
UNDEFINED == "UNDEFINED"

\* The messages of the errors fetchOrders throws, of the TypeError a failed
\* transport rejects fetch with, and of the SyntaxError response.json()
\* rejects with on a body that is not JSON.
MsgNotOk == "Failed to fetch reports data"
MsgDefault == "Failed to fetch reports"
MsgTransport == "Failed to fetch"
MsgSyntax == "Unexpected token < in JSON at position 0"

\* The message field of an unsuccessful answer: absent, empty or a text.
ServerMessages == {UNDEFINED, "", "Unauthorized"}

ErrorMessages == {MsgNotOk, MsgDefault, MsgTransport, MsgSyntax, "Unauthorized"}

QUICK_RANGES == <<"7d", "30d", "thisMonth">>

ViewModes == {"summary", "by-channel"}

getInitialDates(t, off) ==
    [start |-> toISODate(setDate(t, off, getDate(t, off) - 6)), end |-> toISODate(t)]

\* The dates resetQuickRange(id) sets, read from the clock at instant t; an
\* id that is none of the three leaves the dates sd and ed as they are.
QuickRangeDates(id, t, off, sd, ed) ==
    IF id = "7d"
    THEN [start |-> toISODate(setDate(t, off, getDate(t, off) - 6)), end |-> toISODate(t)]
    ELSE IF id = "30d"
    THEN [start |-> toISODate(setDate(t, off, getDate(t, off) - 29)), end |-> toISODate(t)]
    ELSE IF id = "thisMonth"
    THEN [start |-> toISODate(NewLocalDate(getFullYear(t, off), getMonth(t, off), 1, off)),
          end |-> toISODate(t)]
    ELSE [start |-> sd, end |-> ed]

\* The parameters with the channel and status filters appended whatever
\* their values.
ParamsOfSendsAll(ch, st, sd, ed) ==
    [dateFrom |-> IF sd # <<>> THEN {sd} ELSE {},
     dateTo |-> IF ed # <<>> THEN {ed} ELSE {},
     channel |-> {ch},
     status |-> {st}]

\* The URLSearchParams of a request: each parameter is appended when its
\* filter is set, so each holds one value or none.
ParamsOf(ch, st, sd, ed) ==
    [dateFrom |-> IF sd # <<>> THEN {sd} ELSE {},
     dateTo |-> IF ed # <<>> THEN {ed} ELSE {},
     channel |-> IF ch # "all" THEN {ch} ELSE {},
     status |-> IF st # "all" THEN {st} ELSE {}]

CurrentParams == ParamsOf(channel, status, startDate, endDate)

NoResponse == [kind |-> "none", message |-> NULL, data |-> <<>>, before |-> <<>>]

MaxRequests == 2

Remove(seq, i) == SubSeq(seq, 1, i - 1) \o SubSeq(seq, i + 1, Len(seq))

\* fetchOrders up to its first await: the request is sent with the values
\* of the render that ran the effect.
StartFetch ==
    /\ issued < MaxRequests
    /\ loading' = TRUE
    /\ error' = NULL
    /\ inflight' = Append(inflight, [params |-> ParamsOf(channel', status', startDate', endDate'),
                                     stage |-> "fetch"])
    /\ issued' = issued + 1

\* useEffect(..., [channel, status, startDate, endDate]): the effect runs
\* after a render in which a dependency changed.
FilterEffect ==
    IF <<channel', status', startDate', endDate'>> # <<channel, status, startDate, endDate>>
    THEN StartFetch
    ELSE UNCHANGED <<loading, error, inflight, issued>>

SetChannel(c) ==
    /\ channel' = c
    /\ UNCHANGED <<status, startDate, endDate>>
    /\ FilterEffect
    /\ UNCHANGED <<quickRange, viewMode, orders, ordersFor, lastResponse, download, now, tz>>
    /\ UNCHANGED script

SetStatus(st) ==
    /\ status' = st
    /\ UNCHANGED <<channel, startDate, endDate>>
    /\ FilterEffect
    /\ UNCHANGED <<quickRange, viewMode, orders, ordersFor, lastResponse, download, now, tz>>
    /\ UNCHANGED script

\* The start date's handler marking the range as a custom one.
SetStartDateClearsPreset(d) ==
    /\ startDate' = d
    /\ quickRange' = "custom"
    /\ UNCHANGED <<channel, status, endDate>>
    /\ FilterEffect
    /\ UNCHANGED <<viewMode, orders, ordersFor, lastResponse, download, now, tz>>
    /\ UNCHANGED script

SetStartDate(d) ==
    /\ startDate' = d
    /\ UNCHANGED <<channel, status, endDate>>
    /\ FilterEffect
    /\ UNCHANGED <<quickRange, viewMode, orders, ordersFor, lastResponse, download, now, tz>>
    /\ UNCHANGED script

SetEndDate(d) ==
    /\ endDate' = d
    /\ UNCHANGED <<channel, status, startDate>>
    /\ FilterEffect
    /\ UNCHANGED <<quickRange, viewMode, orders, ordersFor, lastResponse, download, now, tz>>
    /\ UNCHANGED script

resetQuickRange(id) ==
    /\ quickRange' = id
    /\ startDate' = QuickRangeDates(id, now, tz, startDate, endDate).start
    /\ endDate' = QuickRangeDates(id, now, tz, startDate, endDate).end
    /\ UNCHANGED <<channel, status>>
    /\ FilterEffect
    /\ UNCHANGED <<viewMode, orders, ordersFor, lastResponse, download, now, tz>>
    /\ UNCHANGED script

SetViewMode(v) ==
    /\ viewMode' = v
    /\ UNCHANGED <<channel, status, quickRange, startDate, endDate, orders, loading, error,
                   inflight, ordersFor, issued, lastResponse, download, now, tz>>
    /\ UNCHANGED script

\* An Error with the given message.
ErrorOf(msg) == [isError |-> TRUE, message |-> msg]

\* The error path clearing the held list.
CompleteFailureClearsList(i, err, kind) ==
    /\ error' = IF err.isError THEN err.message ELSE MsgDefault
    /\ loading' = FALSE
    /\ inflight' = Remove(inflight, i)
    /\ lastResponse' = [kind |-> kind, message |-> err.message, data |-> <<>>,
                        before |-> orders]
    /\ orders' = <<>>
    /\ UNCHANGED ordersFor

\* The error path sending the failed request again.
CompleteFailureRetries(i, err, kind) ==
    /\ error' = IF err.isError THEN err.message ELSE MsgDefault
    /\ loading' = TRUE
    /\ inflight' = Append(Remove(inflight, i), [params |-> inflight[i].params,
                                                stage |-> "fetch"])
    /\ lastResponse' = [kind |-> kind, message |-> err.message, data |-> <<>>,
                        before |-> orders]
    /\ UNCHANGED <<orders, ordersFor>>

\* The error path without the finally block: loading stays as it was.
CompleteFailureKeepsLoading(i, err, kind) ==
    /\ error' = IF err.isError THEN err.message ELSE MsgDefault
    /\ inflight' = Remove(inflight, i)
    /\ lastResponse' = [kind |-> kind, message |-> err.message, data |-> <<>>,
                        before |-> orders]
    /\ UNCHANGED <<orders, ordersFor, loading>>

\* catch (err) { setError(...) } finally { setLoading(false) }
CompleteFailure(i, err, kind) ==
    /\ error' = IF err.isError THEN err.message ELSE MsgDefault
    /\ loading' = FALSE
    /\ inflight' = Remove(inflight, i)
    /\ lastResponse' = [kind |-> kind, message |-> err.message, data |-> <<>>,
                        before |-> orders]
    /\ UNCHANGED <<orders, ordersFor>>

\* The success path guarded by the request's parameters: an answer to
\* other filter values than the current ones is dropped.
CompleteSuccessIfCurrent(i, data) ==
    /\ IF inflight[i].params = CurrentParams
       THEN orders' = data /\ ordersFor' = {inflight[i].params}
       ELSE UNCHANGED <<orders, ordersFor>>
    /\ loading' = FALSE
    /\ inflight' = Remove(inflight, i)
    /\ lastResponse' = [kind |-> "success", message |-> NULL, data |-> data,
                        before |-> orders]
    /\ UNCHANGED error

\* The success path appending the answer to the held list.
CompleteSuccessAppends(i, data) ==
    /\ orders' = orders \o data
    /\ ordersFor' = {inflight[i].params}
    /\ loading' = FALSE
    /\ inflight' = Remove(inflight, i)
    /\ lastResponse' = [kind |-> "success", message |-> NULL, data |-> data,
                        before |-> orders]
    /\ UNCHANGED error

\* The success path clearing the error banner.
CompleteSuccessClearsError(i, data) ==
    /\ orders' = data
    /\ ordersFor' = {inflight[i].params}
    /\ loading' = FALSE
    /\ inflight' = Remove(inflight, i)
    /\ lastResponse' = [kind |-> "success", message |-> NULL, data |-> data,
                        before |-> orders]
    /\ error' = NULL

\* setOrders(result.data), then finally { setLoading(false) }
CompleteSuccess(i, data) ==
    /\ orders' = data
    /\ ordersFor' = {inflight[i].params}
    /\ loading' = FALSE
    /\ inflight' = Remove(inflight, i)
    /\ lastResponse' = [kind |-> "success", message |-> NULL, data |-> data,
                        before |-> orders]
    /\ UNCHANGED error

\* await fetch(...) settles: rejected, answered with a status that is not
\* OK, or answered OK, after which response.json() is awaited.
FetchSettles(i, outcome) ==
    /\ i \in 1..Len(inflight)
    /\ inflight[i].stage = "fetch"
    /\ IF outcome = "rejected" THEN CompleteFailure(i, ErrorOf(MsgTransport), "rejected")
       ELSE IF outcome = "notOk" THEN CompleteFailure(i, ErrorOf(MsgNotOk), "notOk")
       ELSE /\ inflight' = [inflight EXCEPT ![i].stage = "json"]
            /\ UNCHANGED <<orders, ordersFor, loading, error, lastResponse>>
    /\ UNCHANGED <<channel, status, quickRange, startDate, endDate, viewMode, issued,
                   download, now, tz>>
    /\ UNCHANGED script

FetchOutcomes == {"rejected", "notOk", "ok"}

\* The bodies of an OK answer: not JSON, or {success, data, message?}.
InvalidBody == [kind |-> "invalid", success |-> FALSE, data |-> <<>>, message |-> UNDEFINED]
SuccessBody(data) == [kind |-> "json", success |-> TRUE, data |-> data, message |-> UNDEFINED]
FailureBody(msg) == [kind |-> "json", success |-> FALSE, data |-> <<>>, message |-> msg]

\* result.message || 'Failed to fetch reports'
MessageOrDefault(msg) == IF msg \in {UNDEFINED, ""} THEN MsgDefault ELSE msg

\* await response.json() settles.
JsonSettles(i, body) ==
    /\ i \in 1..Len(inflight)
    /\ inflight[i].stage = "json"
    /\ IF body.kind = "invalid" THEN CompleteFailure(i, ErrorOf(MsgSyntax), "invalid")
       ELSE IF body.success THEN CompleteSuccess(i, body.data)
       ELSE CompleteFailure(i, ErrorOf(MessageOrDefault(body.message)), "unsuccessful")
    /\ UNCHANGED <<channel, status, quickRange, startDate, endDate, viewMode, issued,
                   download, now, tz>>
    /\ UNCHANGED script

exportCSV ==
    /\ download' = CsvText(filtered)
    /\ UNCHANGED <<channel, status, quickRange, startDate, endDate, viewMode, orders, loading,
                   error, inflight, ordersFor, issued, lastResponse, now, tz>>
    /\ UNCHANGED script

\* The component after its first render and the effect of the mount, the
\* clock reading t at offset off.
Mounted(t, off) ==
    /\ now = t
    /\ tz = off
    /\ channel = "all"
    /\ status = "all"
    /\ quickRange = "7d"
    /\ startDate = getInitialDates(t, off).start
    /\ endDate = getInitialDates(t, off).end
    /\ viewMode = "summary"
    /\ orders = <<>>
    /\ loading = TRUE
    /\ error = NULL
    /\ inflight = <<[params |-> ParamsOf("all", "all", getInitialDates(t, off).start,
                                         getInitialDates(t, off).end),
                     stage |-> "fetch"]>>
    /\ ordersFor = {}
    /\ issued = 1
    /\ lastResponse = NoResponse
    /\ download = <<>>

----------------------------------------------------------------------------
(* The load-test script: the default function a k6 virtual user runs over  *)
(* and over. http.post and http.get block until the request has ended, so  *)
(* a step is its request, its check and the value it captures.             *)

API_KEY == "huglu_1f3a9b6c2e8d4f0a7b1c3d5e9f2468ab1c2d3e4f5a6b7c8d9e0f1a2b3c4d5e6f"

\* What a request ends in: no response at all (k6 then gives status 0 and a
\* null body), or a status with a body that is not JSON or is a JSON object,
\* given as the values at the paths the script selects.
NoBody == [kind |-> "null", value |-> <<>>]
TextBody == [kind |-> "text", value |-> <<>>]
JsonBody(fields) == [kind |-> "json", value |-> fields]
Response(st, body) == [status |-> st, body |-> body]

\* Response.json(selector): throws on a null body; undefined for a body
\* that is not valid JSON or has nothing at the path; the value otherwise.
JsonThrows(res) == res.body.kind = "null"
Json(res, selector) ==
    IF res.body.kind = "json" /\ selector \in DOMAIN res.body.value
    THEN res.body.value[selector]
    ELSE UNDEFINED

\* `Bearer ${token}`
Bearer(t) == <<"Bearer", t>>

\* { Authorization: `Bearer ${token}`, "x-api-key": API_KEY, ... }
Headers(t) ==
    [Authorization |-> Bearer(t), xApiKey |-> API_KEY, ContentType |-> "application/json"]

\* JSON.stringify({ product_id: productId, quantity: 1 }): a property whose
\* value is undefined is left out.
CartBody(id) == [product_id |-> IF id = UNDEFINED THEN {} ELSE {id}, quantity |-> 1]

\* check(res, { name: (res) => ... }): the result is recorded, never thrown.
Check(name, res, passes) == [name |-> name, status |-> res.status, ok |-> passes]

NoIteration == [sent |-> <<>>, checks |-> <<>>, slept |-> FALSE, threw |-> FALSE]

MaxIterations == 2

\* A virtual user about to run the default function.
NewVU ==
    /\ pc = "login"
    /\ token = UNDEFINED
    /\ productId = UNDEFINED
    /\ sent = <<>>
    /\ checks = <<>>
    /\ iteration = 0
    /\ finished = NoIteration

\* The default function returns, or an exception leaves it: k6 ends the
\* iteration and the virtual user starts the next one.
EndIteration(requests, results, slept, threw) ==
    /\ finished' = [sent |-> requests, checks |-> results, slept |-> slept, threw |-> threw]
    /\ iteration' = iteration + 1
    /\ pc' = "login"
    /\ token' = UNDEFINED
    /\ productId' = UNDEFINED
    /\ sent' = <<>>
    /\ checks' = <<>>

\* The login step with a return when its check fails.
LoginAbortsOnFailedCheck(res) ==
    LET requests == Append(sent, [step |-> "login", method |-> "POST", url |-> "/auth/login",
                                  headers |-> UNDEFINED,
                                  body |-> [email |-> "test@test.com",
                                            password |-> "123456"]])
        results == Append(checks, Check("login", res, res.status = 200))
    IN /\ pc = "login"
       /\ iteration < MaxIterations
       /\ IF JsonThrows(res) THEN EndIteration(requests, results, FALSE, TRUE)
          ELSE IF res.status # 200 THEN EndIteration(requests, results, FALSE, FALSE)
          ELSE /\ sent' = requests
               /\ checks' = results
               /\ token' = Json(res, "token")
               /\ pc' = "products"
               /\ UNCHANGED <<productId, iteration, finished>>
       /\ UNCHANGED <<channel, status, quickRange, startDate, endDate, viewMode, orders,
                      loading, error, inflight, ordersFor, issued, lastResponse, download,
                      now, tz>>

\* http.post(`${BASE_URL}/auth/login`, ...), its check, login.json("token")
Login(res) ==
    LET requests == Append(sent, [step |-> "login", method |-> "POST", url |-> "/auth/login",
                                  headers |-> UNDEFINED,
                                  body |-> [email |-> "test@test.com",
                                            password |-> "123456"]])
        results == Append(checks, Check("login", res, res.status = 200))
    IN /\ pc = "login"
       /\ iteration < MaxIterations
       /\ IF JsonThrows(res) THEN EndIteration(requests, results, FALSE, TRUE)
          ELSE /\ sent' = requests
               /\ checks' = results
               /\ token' = Json(res, "token")
               /\ pc' = "products"
               /\ UNCHANGED <<productId, iteration, finished>>
       /\ UNCHANGED <<channel, status, quickRange, startDate, endDate, viewMode, orders,
                      loading, error, inflight, ordersFor, issued, lastResponse, download,
                      now, tz>>

\* http.get(`${BASE_URL}/products?page=1&limit=20`, { headers }), its
\* check, products.json("items[0].id")
ListProducts(res) ==
    LET requests == Append(sent, [step |-> "products", method |-> "GET",
                                  url |-> "/products?page=1&limit=20",
                                  headers |-> Headers(token), body |-> UNDEFINED])
        results == Append(checks, Check("products", res, res.status = 200))
    IN /\ pc = "products"
       /\ IF JsonThrows(res) THEN EndIteration(requests, results, FALSE, TRUE)
          ELSE /\ sent' = requests
               /\ checks' = results
               /\ productId' = Json(res, "items[0].id")
               /\ pc' = "cart"
               /\ UNCHANGED <<token, iteration, finished>>
       /\ UNCHANGED <<channel, status, quickRange, startDate, endDate, viewMode, orders,
                      loading, error, inflight, ordersFor, issued, lastResponse, download,
                      now, tz>>

\* http.post(`${BASE_URL}/cart/add`, ..., { headers }) and its check
AddToCart(res) ==
    /\ pc = "cart"
    /\ sent' = Append(sent, [step |-> "cart", method |-> "POST", url |-> "/cart/add",
                             headers |-> Headers(token), body |-> CartBody(productId)])
    /\ checks' = Append(checks, Check("cart", res, res.status = 200))
    /\ pc' = "order"
    /\ UNCHANGED <<token, productId, iteration, finished>>
    /\ UNCHANGED <<channel, status, quickRange, startDate, endDate, viewMode, orders,
                   loading, error, inflight, ordersFor, issued, lastResponse, download,
                   now, tz>>

\* http.post(`${BASE_URL}/order`, ..., { headers }) and its check
CreateOrder(res) ==
    /\ pc = "order"
    /\ sent' = Append(sent, [step |-> "order", method |-> "POST", url |-> "/order",
                             headers |-> Headers(token),
                             body |-> [payment |-> "TEST_MODE", shipping |-> "EXPRESS"]])
    /\ checks' = Append(checks, Check("order", res, res.status = 200 \/ res.status = 201))
    /\ pc' = "sleep"
    /\ UNCHANGED <<token, productId, iteration, finished>>
    /\ UNCHANGED <<channel, status, quickRange, startDate, endDate, viewMode, orders,
                   loading, error, inflight, ordersFor, issued, lastResponse, download,
                   now, tz>>

\* sleep(1), after which the default function returns.
Sleep ==
    /\ pc = "sleep"
    /\ EndIteration(sent, checks, TRUE, FALSE)
    /\ UNCHANGED <<channel, status, quickRange, startDate, endDate, viewMode, orders,
                   loading, error, inflight, ordersFor, issued, lastResponse, download,
                   now, tz>>

----------------------------------------------------------------------------
(* The dashboard: every handler of the component, with the answers of the  *)
(* backend and the user's choices drawn from small sets.                   *)

\* 2024-01-10T12:00Z, read in Istanbul (UTC+3).
NoonInstant == (DaysFromCivil(2024, 1, 10) * 24 + 12) * 60
IstanbulOffset == 3 * 60

ChannelChoices == {"all", "trendyol", "site"}
StatusChoices == {"all", "returned"}
\* The date inputs: a date cleared, a date picked.
DateChoices == {<<>>, DateText(2024, 1, 1)}

\* The data lists of the successful answers.
ResponseLists ==
    {<<>>,
     <<Row(DateText(2024, 1, 10), "hepsiburada", "pending", 10, NameAli, SlipNull)>>,
     <<Row(DateText(2024, 1, 9), "trendyol", "returned", 10, NameEce,
           SlipText(DateText(2024, 1, 9))),
       Row(DateText(2024, 1, 10), "hepsiburada", "delivered", 110, NameCanLtd, SlipText(<<>>))>>}

Bodies ==
    {InvalidBody} \cup {SuccessBody(l) : l \in ResponseLists}
        \cup {FailureBody(m) : m \in ServerMessages}

Init == Mounted(NoonInstant, IstanbulOffset) /\ NewVU

Next ==
    \/ \E c \in ChannelChoices : SetChannel(c)
    \/ \E st \in StatusChoices : SetStatus(st)
    \/ \E d \in DateChoices : SetStartDate(d)
    \/ \E d \in DateChoices : SetEndDate(d)
    \/ \E k \in 1..Len(QUICK_RANGES) : resetQuickRange(QUICK_RANGES[k])
    \/ \E v \in ViewModes : SetViewMode(v)
    \/ \E i \in 1..Len(inflight), o \in FetchOutcomes : FetchSettles(i, o)
    \/ \E i \in 1..Len(inflight), b \in Bodies : JsonSettles(i, b)
    \/ exportCSV

Spec == Init /\ [][Next]_vars

----------------------------------------------------------------------------
(* The order fetcher.                                                      *)

FailureKinds == {"rejected", "notOk", "invalid", "unsuccessful"}

\* A step in which a fetchOrders call runs to its end.
Completes == Len(inflight') < Len(inflight)

\* C1: when a request fails (the transport rejects, the status is not OK,
\* the body is not JSON or its success flag is false), the held order list
\* is left as it was and error becomes the one message of that failure,
\* never null.
FailureKeepsListAndSetsError ==
    [][(Completes /\ lastResponse'.kind \in FailureKinds)
          => /\ orders' = orders
             /\ error' # NULL
             /\ error' \in ErrorMessages
             /\ error' = lastResponse'.message]_vars

\* A failure has been handled while a list was held: the list is still held
\* and the message is shown.
FailureAfterListWitness ==
    /\ lastResponse.kind \in FailureKinds
    /\ orders # <<>>
    /\ orders = lastResponse.before
    /\ error = lastResponse.message

\* C2: a request whose parameters are no longer those of the filter state
\* is neither cancelled nor recognised: when it succeeds, its data becomes
\* the held list all the same.
SupersededResponseOverwrites ==
    [][\A i \in 1..Len(inflight) :
          (/\ inflight' = Remove(inflight, i)
           /\ lastResponse'.kind = "success"
           /\ inflight[i].params # CurrentParams)
          => /\ orders' = lastResponse'.data
             /\ ordersFor' = {inflight[i].params}]_vars

\* No request is in flight, none has failed since the last one started, and
\* the held list answers other filter values than the current ones.
StaleListWitness ==
    /\ inflight = <<>>
    /\ error = NULL
    /\ lastResponse.kind = "success"
    /\ orders = lastResponse.data
    /\ ordersFor # {}
    /\ ordersFor # {CurrentParams}

\* C3: after a successful answer the held list is that answer's data list,
\* whatever was held before.
SuccessReplacesList ==
    lastResponse.kind = "success" => orders = lastResponse.data

\* A non-empty list has been replaced by another non-empty answer.
ReplacedListWitness ==
    /\ lastResponse.kind = "success"
    /\ lastResponse.before # <<>>
    /\ lastResponse.data # <<>>
    /\ lastResponse.data # lastResponse.before
    /\ orders = lastResponse.data

\* A step that changes the filter state the effect depends on.
FilterChanges ==
    <<channel', status', startDate', endDate'>> # <<channel, status, startDate, endDate>>

\* A step in which fetchOrders is called.
Starts == issued' = issued + 1

\* A step that sends no request: the requests in flight stay as they are,
\* or one of them ends, or one of them gets its answer's head.
SendsNothing ==
    \/ inflight' = inflight
    \/ \E i \in 1..Len(inflight) : inflight' = Remove(inflight, i)
    \/ \E i \in 1..Len(inflight) :
          /\ inflight[i].stage = "fetch"
          /\ inflight' = [inflight EXCEPT ![i].stage = "json"]

\* C11: the mount sends one request; a step that changes the filter state
\* sends exactly one more; no other step sends any, the step in which a
\* request fails included, so a failed request is never sent again.
OneRequestPerFilterChange ==
    /\ issued = 1 /\ Len(inflight) = 1
    /\ [][IF FilterChanges
          THEN /\ Starts
               /\ Len(inflight') = Len(inflight) + 1
               /\ SubSeq(inflight', 1, Len(inflight)) = inflight
               /\ inflight'[Len(inflight')].stage = "fetch"
          ELSE /\ issued' = issued
               /\ SendsNothing]_vars

\* The filter state was changed once, both requests have ended, the last of
\* them in a failure, and nothing is in flight.
FailureNotRetriedWitness ==
    /\ issued = 2
    /\ inflight = <<>>
    /\ lastResponse.kind \in FailureKinds
    /\ error # NULL

\* C18: the request a step sends carries dateFrom and dateTo when the dates
\* of the filter state are not empty, channel and status when they are not
\* 'all', with the values the filter state has in that step; the parameters
\* of a request in flight never change afterwards.
RequestCarriesFilterState ==
    /\ inflight[1].params = [dateFrom |-> {startDate}, dateTo |-> {endDate},
                             channel |-> {}, status |-> {}]
    /\ [][/\ Starts
             => LET carried == inflight'[Len(inflight')].params
                IN /\ carried.dateFrom = {d \in {startDate'} : d # <<>>}
                   /\ carried.dateTo = {d \in {endDate'} : d # <<>>}
                   /\ carried.channel = {c \in {channel'} : c # "all"}
                   /\ carried.status = {st \in {status'} : st # "all"}
          /\ LET before == [i \in 1..Len(inflight) |-> inflight[i].params]
                 after == [i \in 1..Len(inflight') |-> inflight'[i].params]
             IN \/ after = before
                \/ \E i \in 1..Len(before) : after = Remove(before, i)
                \/ Starts /\ SubSeq(after, 1, Len(before)) = before]_vars

\* The request of the mount, sent for every channel, and the request sent
\* after a channel was chosen are in flight together.
ChannelRequestWitness ==
    /\ Len(inflight) = 2
    /\ inflight[1].params.channel = {}
    /\ channel # "all"
    /\ inflight[2].params.channel = {channel}
    /\ inflight[2].params.dateFrom = {startDate}
    /\ inflight[2].params.status = {}

\* C19: loading becomes true in the step that starts a request and false in
\* the step in which a request ends, in success or in failure; whenever no
\* request is in flight, loading is false.
LoadingFollowsRequests ==
    [][/\ Starts => loading'
       /\ Completes => ~loading'
       /\ inflight' = <<>> => ~loading']_vars

\* Two requests overlapped and the older one ended last: the list held
\* answers the older one, nothing is in flight and loading is false.
OverlapSettledWitness ==
    /\ issued = 2
    /\ inflight = <<>>
    /\ ~loading
    /\ lastResponse.kind = "success"
    /\ ordersFor # {CurrentParams}

\* C20: error becomes null only in a step that starts a request and becomes
\* a message only in a step in which a request fails; the step in which a
\* request succeeds leaves it as it is.
ErrorClearedOnStartSetOnFailure ==
    [][/\ Starts => error' = NULL
       /\ (Completes /\ lastResponse'.kind = "success") => error' = error
       /\ error' # error
             => \/ Starts /\ error' = NULL
                \/ Completes /\ lastResponse'.kind \in FailureKinds /\ error' # NULL]_vars

\* The older of two requests failed after the newer one had started, then
\* the newer one succeeded: nothing is in flight, the list held is the
\* newest answer and the message of the older failure is still shown.
StaleErrorWitness ==
    /\ issued = 2
    /\ inflight = <<>>
    /\ error # NULL
    /\ lastResponse.kind = "success"
    /\ orders = lastResponse.data
    /\ ordersFor = {CurrentParams}

\* C21: quickRange changes only in a step of resetQuickRange; a step that
\* changes channel, status or the view mode, or edits a date by hand, leaves
\* it as it is. A step that changes the view mode changes neither the
\* filter state nor the held list and sends no request.
QuickRangeOnlyByReset ==
    [][/\ quickRange' # quickRange
             => \E k \in 1..Len(QUICK_RANGES) : resetQuickRange(QUICK_RANGES[k])
       /\ (channel' # channel \/ status' # status \/ viewMode' # viewMode)
             => quickRange' = quickRange
       /\ (<<startDate', endDate'>> # <<startDate, endDate>>
              /\ <<startDate', endDate'>>
                    \notin {<<QuickRangeDates(QUICK_RANGES[k], now, tz, startDate, endDate).start,
                              QuickRangeDates(QUICK_RANGES[k], now, tz, startDate, endDate).end>> :
                               k \in 1..Len(QUICK_RANGES)})
             => quickRange' = quickRange
       /\ viewMode' # viewMode
             => /\ UNCHANGED <<channel, status, startDate, endDate, quickRange, orders>>
                /\ UNCHANGED <<inflight, issued, loading, error>>]_vars

\* The start date was edited by hand and the view switched: preset '7d' is
\* still highlighted while the dates are not those of the preset.
PresetOutOfDateWitness ==
    /\ quickRange = "7d"
    /\ <<startDate, endDate>> # <<QuickRangeDates("7d", now, tz, startDate, endDate).start,
                                  QuickRangeDates("7d", now, tz, startDate, endDate).end>>
    /\ startDate = DateText(2024, 1, 1)
    /\ viewMode = "by-channel"
    /\ issued = 2

----------------------------------------------------------------------------
(* The reducers and the export over the lists the backend may answer with: *)
(* the request of the mount answered with any of them.                     *)

InitAgg == Mounted(NoonInstant, IstanbulOffset) /\ NewVU

NextAgg ==
    \/ FetchSettles(1, "ok")
    \/ \E list \in OrderLists : JsonSettles(1, SuccessBody(list))
    \/ exportCSV
    \/ \E v \in ViewModes : SetViewMode(v)

SpecAgg == InitAgg /\ [][NextAgg]_vars

\* buckets.reduce((s, b) => s + b.amount, 0)
SumOfAmounts(buckets) == SumAmounts(buckets, PlusZero)

RECURSIVE SumOfValues(_)
SumOfValues(buckets) ==
    IF buckets = <<>> THEN 0 ELSE Head(buckets).value + SumOfValues(Tail(buckets))

\* C4: the amounts of the five channel buckets add up to totals.totalAmount.
ChannelAmountsSumToTotal ==
    SumOfAmounts(byChannel(filtered)) = totals(filtered).totalAmount

SyntheticBucket == <<[status |-> "pending", value |-> 1]>>

\* C5: byStatus is the synthetic bucket {pending, 1} exactly when there is
\* no order, and otherwise its values add up to the number of orders.
StatusCountsOrSynthetic ==
    /\ (byStatus(filtered) = SyntheticBucket) <=> (Len(filtered) = 0)
    /\ byStatus(filtered) # SyntheticBucket
          => SumOfValues(byStatus(filtered)) = Len(filtered)

\* No order is held and the pie chart is given the synthetic bucket.
SyntheticBucketWitness ==
    /\ lastResponse.kind = "success"
    /\ filtered = <<>>
    /\ byStatus(filtered) = SyntheticBucket
    /\ SumOfValues(byStatus(filtered)) # Len(filtered)

\* The day number a YYYY-MM-DD text names.
DayNumberOf(text) ==
    DaysFromCivil((text[1] - Zero) * 1000 + (text[2] - Zero) * 100
                      + (text[3] - Zero) * 10 + (text[4] - Zero),
                  (text[6] - Zero) * 10 + (text[7] - Zero),
                  (text[9] - Zero) * 10 + (text[10] - Zero))

\* C6: the timeSeries buckets come in non-decreasing order of date.
TimeSeriesInDateOrder ==
    \A i \in 1..(Len(timeSeries(filtered)) - 1) :
        /\ localeCompare(timeSeries(filtered)[i].date, timeSeries(filtered)[i + 1].date) <= 0
        /\ DayNumberOf(timeSeries(filtered)[i].date)
              <= DayNumberOf(timeSeries(filtered)[i + 1].date)

\* The rows arrived latest day first, over three days, and the buckets are
\* in date order.
UnorderedRowsWitness ==
    /\ Len(filtered) = 3
    /\ DayNumberOf(filtered[1].date) > DayNumberOf(filtered[2].date)
    /\ DayNumberOf(filtered[2].date) > DayNumberOf(filtered[3].date)
    /\ Len(timeSeries(filtered)) = 3
    /\ timeSeries(filtered)[1].date = filtered[3].date

\* a < b on naturals.
RECURSIVE NatLess(_, _)
NatLess(a, b) ==
    IF Len(a) # Len(b) THEN Len(a) < Len(b)
    ELSE IF a = <<>> THEN FALSE
    ELSE IF a[Len(a)] # b[Len(b)] THEN a[Len(a)] < b[Len(b)]
    ELSE NatLess(NatTrim(SubSeq(a, 1, Len(a) - 1)), NatTrim(SubSeq(b, 1, Len(b) - 1)))

\* a - b on naturals, for a >= b.
RECURSIVE NatSubBorrow(_, _, _)
NatSubBorrow(a, b, c) ==
    IF a = <<>> THEN <<>>
    ELSE LET y == IF b = <<>> THEN 0 ELSE Head(b)
             d == Head(a) - y - c
         IN <<d % Base>> \o NatSubBorrow(Tail(a), IF b = <<>> THEN <<>> ELSE Tail(b),
                                          IF d < 0 THEN 1 ELSE 0)

NatDistance(a, b) ==
    IF NatLess(a, b) THEN NatTrim(NatSubBorrow(b, a, 0)) ELSE NatTrim(NatSubBorrow(a, b, 0))

\* |q * n - x| in units of 2^e, e the lesser exponent of q and x.
QuotientError(q, x, n) ==
    LET e == IF q.exp < x.exp THEN q.exp ELSE x.exp
    IN NatDistance(NatShiftLeft(NatMulSmall(q.sig, n, 0), q.exp - e),
                   NatShiftLeft(x.sig, x.exp - e))

\* q is a double within half a unit in its last place of x / n, the
\* quotient of the real numbers: 2 * |q * n - x| <= n * 2^q.exp.
WithinHalfUlpOfQuotient(q, x, n) ==
    IF x = PlusZero \/ q = PlusZero THEN q = x
    ELSE LET e == IF q.exp < x.exp THEN q.exp ELSE x.exp
         IN ~NatLess(NatShiftLeft(NatOf(n), q.exp - e),
                     NatShiftLeft(QuotientError(q, x, n), 1))

\* C7: avgBasket is 0 for the empty list, and otherwise the quotient of
\* totalAmount by orderCount: the Number totalAmount / orderCount, which is
\* the double nearest to the quotient of the two.
AvgBasketIsQuotient ==
    IF Len(filtered) = 0
    THEN totals(filtered).avgBasket = PlusZero
    ELSE /\ totals(filtered).orderCount = Len(filtered)
         /\ totals(filtered).avgBasket
               = NumDiv(totals(filtered).totalAmount, NumberOf(Len(filtered)))
         /\ WithinHalfUlpOfQuotient(totals(filtered).avgBasket,
                                    totals(filtered).totalAmount, Len(filtered))

\* Three orders whose total no double is a third of.
AvgBasketWitness ==
    /\ Len(filtered) = 3
    /\ totals(filtered).avgBasket # PlusZero
    /\ QuotientError(totals(filtered).avgBasket, totals(filtered).totalAmount, 3) # <<>>

\* C10: the CSV holds the header row and then one row for each held order,
\* in list order: its row count is the order count plus one.
CsvHasOneRowPerOrder ==
    [][download' # download
          => /\ Len(Split(download', LF)) = Len(filtered) + 1
             /\ Split(download', LF)[1] = Join(CsvHeaders, Semicolon)
             /\ \A i \in 1..Len(filtered) :
                   Split(download', LF)[i + 1] = Join(CsvRow(filtered[i]), Semicolon)]_vars

\* The number of rows of list that satisfy Test.
CountOf(list, Test(_)) == Cardinality({i \in 1..Len(list) : Test(list[i])})

\* (k / n) * 100 on Numbers, and 0 when n is 0.
Percentage(k, n) ==
    IF n = 0 THEN PlusZero ELSE NumMul(NumDiv(NumberOf(k), NumberOf(n)), Hundred)

\* v is within two units in its last place of 100 * k / n, the quotient of
\* the real numbers: |v * n - 100 * k| <= 2 * n * 2^v.exp.
WithinTwoUlpsOfPercentage(v, k, n) ==
    IF k = 0 \/ v = PlusZero THEN k = 0 /\ v = PlusZero
    ELSE LET x == NumberOf(100 * k)
             e == IF v.exp < x.exp THEN v.exp ELSE x.exp
         IN ~NatLess(NatShiftLeft(NatOf(n), v.exp - e + 1), QuotientError(v, x, n))

\* x <= y on Numbers.
NumLessOrEqual(x, y) ==
    IF x = PlusZero THEN TRUE
    ELSE IF y = PlusZero THEN FALSE
    ELSE LET e == IF x.exp < y.exp THEN x.exp ELSE y.exp
         IN ~NatLess(NatShiftLeft(y.sig, y.exp - e), NatShiftLeft(x.sig, x.exp - e))

IsString(o) == o.cargoSlipPrintedAt.kind = "string"
IsNonEmptyString(o) == IsString(o) /\ o.cargoSlipPrintedAt.text # <<>>

\* C14, as claimed: onTimeRate is 100 times the number of orders whose
\* cargoSlipPrintedAt is not null, be it the empty string, divided by the
\* order count, and 0 for the empty list.
OnTimeRateCountsNonNull ==
    totals(filtered).onTimeRate = Percentage(CountOf(filtered, IsString), Len(filtered))

\* C14, amended: onTimeRate is 100 times the number of orders whose
\* cargoSlipPrintedAt is a non-empty string divided by the order count;
\* an absent, a null and an empty timestamp are not counted; it is 0 for
\* the empty list.
OnTimeRateCountsTruthy ==
    /\ totals(filtered).onTimeRate
          = Percentage(CountOf(filtered, IsNonEmptyString), Len(filtered))
    /\ Len(filtered) # 0
          => WithinTwoUlpsOfPercentage(totals(filtered).onTimeRate,
                                       CountOf(filtered, IsNonEmptyString), Len(filtered))
    /\ Len(filtered) = 0 => totals(filtered).onTimeRate = PlusZero

\* Three orders, one with a printed slip, one with an empty timestamp and
\* one with none: a third of them count.
EmptyTimestampWitness ==
    /\ Len(filtered) = 3
    /\ CountOf(filtered, IsNonEmptyString) = 1
    /\ CountOf(filtered, IsString) = 2
    /\ \E i \in 1..3 : filtered[i].cargoSlipPrintedAt = SlipAbsent
    /\ totals(filtered).onTimeRate = Percentage(1, 3)

IsReturned(o) == o.status = "returned"
IsCancelled(o) == o.status = "cancelled"

RECURSIVE SumOfCounts(_)
SumOfCounts(buckets) ==
    IF buckets = <<>> THEN 0 ELSE Head(buckets).count + SumOfCounts(Tail(buckets))

\* C16: byChannel has the five entries hepsiburada, trendyol, ticimax, site,
\* other in this order, a channel without orders with amount 0 and count 0,
\* and the five counts add up to the order count.
FiveChannelBuckets ==
    /\ [i \in 1..Len(byChannel(filtered)) |-> byChannel(filtered)[i].channel]
          = <<"hepsiburada", "trendyol", "ticimax", "site", "other">>
    /\ \A i \in 1..Len(byChannel(filtered)) :
          LET b == byChannel(filtered)[i]
              OfChannel(o) == o.channel = b.channel
          IN /\ b.count = CountOf(filtered, OfChannel)
             /\ b.count = 0 => b.amount = PlusZero
    /\ SumOfCounts(byChannel(filtered)) = Len(filtered)

\* Orders are held, two of them of one channel, and there are channels
\* without any.
EmptyChannelWitness ==
    /\ Len(filtered) = 3
    /\ \E i \in 1..5 : byChannel(filtered)[i].count = 2
    /\ \E i \in 1..5 : byChannel(filtered)[i] = [channel |-> channelOrder[i],
                                                 amount |-> PlusZero, count |-> 0]

\* The amounts of the orders of list dated d, added in list order.
RECURSIVE AmountOn(_, _)
AmountOn(list, d) ==
    IF list = <<>> THEN PlusZero
    ELSE IF list[Len(list)].date = d
    THEN NumAdd(AmountOn(SubSeq(list, 1, Len(list) - 1), d), list[Len(list)].amount)
    ELSE AmountOn(SubSeq(list, 1, Len(list) - 1), d)

\* C17: timeSeries has one bucket for each date an order has and no other,
\* the amount and count of a bucket are the sum and the number of the
\* orders of its date, and the counts add up to the order count.
OneBucketPerDate ==
    /\ {timeSeries(filtered)[i].date : i \in 1..Len(timeSeries(filtered))}
          = {filtered[k].date : k \in 1..Len(filtered)}
    /\ Len(timeSeries(filtered)) = Cardinality({filtered[k].date : k \in 1..Len(filtered)})
    /\ \A i \in 1..Len(timeSeries(filtered)) :
          LET b == timeSeries(filtered)[i]
              OnDate(o) == o.date = b.date
          IN /\ b.count = CountOf(filtered, OnDate)
             /\ b.amount = AmountOn(filtered, b.date)
    /\ SumOfCounts(timeSeries(filtered)) = Len(filtered)

\* Three orders on two dates, the two of one date apart in the list.
SharedDateWitness ==
    /\ Len(filtered) = 3
    /\ filtered[1].date = filtered[3].date
    /\ filtered[1].date # filtered[2].date
    /\ Len(timeSeries(filtered)) = 2
    /\ \E i \in 1..2 : timeSeries(filtered)[i].count = 2

----------------------------------------------------------------------------
(* The quick ranges over the clock: the page opened, and the presets used, *)
(* at any of the instants below in any of the three time zones.            *)

\* The UTC days 2023-12-31, 2024-01-10, 2024-02-29 and 2024-03-01, each at
\* 00:30, 12:00 and 22:30 UTC.
ClockDays ==
    {DaysFromCivil(2023, 12, 31), DaysFromCivil(2024, 1, 10),
     DaysFromCivil(2024, 2, 29), DaysFromCivil(2024, 3, 1)}
ClockMinutes == {30, 12 * 60, 22 * 60 + 30}
Instants == {d * MinutesPerDay + m : d \in ClockDays, m \in ClockMinutes}

\* New York (UTC-5), UTC and Istanbul (UTC+3).
Offsets == {-(5 * 60), 0, IstanbulOffset}

InitDates == NewVU /\ \E t \in Instants, off \in Offsets : Mounted(t, off)

NextDates ==
    \/ \E k \in 1..Len(QUICK_RANGES) : resetQuickRange(QUICK_RANGES[k])
    \/ \E i \in 1..Len(inflight), o \in FetchOutcomes : FetchSettles(i, o)
    \/ \E i \in 1..Len(inflight) : JsonSettles(i, SuccessBody(<<>>))

SpecDates == InitDates /\ [][NextDates]_vars

\* Today's calendar date where the browser is, as YYYY-MM-DD.
LocalToday(t, off) ==
    LET c == CivilFromDays(LocalDay(t, off)) IN DateText(c.year, c.month, c.day)

\* The first day of the current month where the browser is.
LocalFirstOfMonth(t, off) ==
    LET c == CivilFromDays(LocalDay(t, off)) IN DateText(c.year, c.month, 1)

\* C8: the range of preset '7d', and the initial range, ends today and
\* starts six days earlier; the range of preset '30d' ends today and starts
\* 29 days earlier.
QuickRangeSpansEndToday ==
    /\ quickRange = "7d"
          => /\ endDate = LocalToday(now, tz)
             /\ DayNumberOf(endDate) - DayNumberOf(startDate) = 6
    /\ quickRange = "30d"
          => /\ endDate = LocalToday(now, tz)
             /\ DayNumberOf(endDate) - DayNumberOf(startDate) = 29

\* C9: the range of preset 'thisMonth' runs from the first day of the
\* current month to today.
ThisMonthFromFirstToToday ==
    quickRange = "thisMonth"
        => /\ startDate = LocalFirstOfMonth(now, tz)
           /\ endDate = LocalToday(now, tz)

----------------------------------------------------------------------------
(* The load test: one virtual user, each request ending in any of the      *)
(* answers below. The dashboard is left as it was mounted.                 *)

\* The properties a JSON answer may hold at the paths the script selects;
\* the token and the id are opaque values, kept as text.
EmptyObject == [path \in {} |-> UNDEFINED]
FullObject == ("token" :> "eyJhbGciOi") @@ ("items[0].id" :> "7")

\* No response; or 200, 201 or 500 with a body that is not JSON, is {} or
\* holds the token and the product list.
Answers ==
    {Response(0, NoBody)}
        \cup {Response(st, b) : st \in {200, 201, 500},
                               b \in {TextBody, JsonBody(EmptyObject), JsonBody(FullObject)}}

InitLoad == Mounted(NoonInstant, IstanbulOffset) /\ NewVU

NextLoad ==
    \/ \E res \in Answers : Login(res)
    \/ \E res \in Answers : ListProducts(res)
    \/ \E res \in Answers : AddToCart(res)
    \/ \E res \in Answers : CreateOrder(res)
    \/ Sleep

SpecLoad == InitLoad /\ [][NextLoad]_vars

StepOrder == <<"login", "products", "cart", "order">>

StepsSent(requests) == [i \in 1..Len(requests) |-> requests[i].step]
StepsChecked(results) == [i \in 1..Len(results) |-> results[i].name]

Passes(result) ==
    IF result.name = "order" THEN result.status \in {200, 201} ELSE result.status = 200

\* C13: an iteration sends one request for each of login, list products,
\* add-to-cart and create-order, in this order, each followed by its one
\* status check, and sleeps after the fourth: the running iteration has
\* done a prefix of this, and every iteration that ended has done all of it.
EveryIterationRunsFourSteps ==
    /\ StepsSent(sent) = SubSeq(StepOrder, 1, Len(sent))
    /\ StepsChecked(checks) = StepsSent(sent)
    /\ \A i \in 1..Len(checks) : checks[i].ok = Passes(checks[i])
    /\ iteration > 0
          => /\ StepsSent(finished.sent) = StepOrder
             /\ StepsChecked(finished.checks) = StepOrder
             /\ \A i \in 1..Len(finished.checks) :
                   finished.checks[i].ok = Passes(finished.checks[i])
             /\ finished.slept

====
